---- MODULE Spec2Model ----
(***************************************************************************)
(* A model of the genetic-algorithm engine of src/index.ts: the            *)
(* SafeEvaluator, the fitness function, the chromosome codec (random       *)
(* generation, crossover, mutation), tournament selection, elitism and the *)
(* generational loop of GeneticAlgorithm.evolve.                           *)
(*                                                                         *)
(* Numbers are exact rationals [n, d] in lowest terms with d > 0; the      *)
(* rounding of IEEE doubles is not modelled.  A value that JavaScript      *)
(* would compute as Infinity or NaN is tracked by a flag.  A chromosome is *)
(* a sequence of one-character strings.  Objects live in `heap`; the       *)
(* population arrays hold references (indices into `heap`).                *)
(***************************************************************************)
EXTENDS Integers, Sequences, FiniteSets, TLC

VARIABLES
    config,              \* this.config (Config), fixed by the constructor
    callsLeft,           \* how many more times the caller will invoke evolve()
    pc,                  \* position of the control flow inside / outside evolve()
    heap,                \* the Agent objects, by reference
    population,          \* this.population: references into heap
    newPopulation,       \* the local newPopulation of evolve(): references into heap
    generation,          \* this.generation
    bestFitnessHistory,  \* this.bestFitnessHistory
    result,              \* what the current evolve() returned: <<>> (nothing yet) or <<agent>>
    fit                  \* the cells of the harness of a single function

vars == <<config, callsLeft, pc, heap, population, newPopulation, generation,
          bestFitnessHistory, result, fit>>

----------------------------------------------------------------------------
(* Bounds of the model *)

\* digit characters a random draw may produce: digits[0..MaxDigit]
MaxDigit == 1

\* largest numerator / denominator of the inputs of the fitness harness
MaxFit == 3

\* largest maxEquationLength of the generator harness
MaxLength == 5

\* representative values of Math.random(), in hundredths (0 <= r < 1)
RandomUnit == {0, 20, 40, 60, 80}

\* indices into `operators` a random draw may produce ("-" and "/")
OperatorDraws == {1, 3}

----------------------------------------------------------------------------
(* Exact rational arithmetic *)

Abs(x) == IF x < 0 THEN -x ELSE x

RECURSIVE GCD(_, _)
GCD(a, b) == IF b = 0 THEN a ELSE GCD(b, a % b)

\* n/d with d > 0, in lowest terms
Lowest(n, d, g) == [n |-> n \div g, d |-> d \div g]
Reduce(n, d) == Lowest(n, d, GCD(Abs(n), d))
Rat(n, d) == IF d < 0 THEN Reduce(-n, -d) ELSE Reduce(n, d)

Zero == [n |-> 0, d |-> 1]
One == [n |-> 1, d |-> 1]
FromInt(i) == [n |-> i, d |-> 1]

RAdd(a, b) == Rat(a.n * b.d + b.n * a.d, a.d * b.d)
RSub(a, b) == Rat(a.n * b.d - b.n * a.d, a.d * b.d)
RMul(a, b) == Rat(a.n * b.n, a.d * b.d)
RDiv(a, b) == Rat(a.n * b.d, a.d * b.n)
RAbs(a) == [n |-> Abs(a.n), d |-> a.d]
RLess(a, b) == a.n * b.d < b.n * a.d
RLeq(a, b) == a.n * b.d <= b.n * a.d

----------------------------------------------------------------------------
(* SafeEvaluator *)

operators == <<"+", "-", "*", "/">>
digits == <<"0", "1", "2", "3", "4", "5", "6", "7", "8", "9">>

OperatorChars == {operators[i] : i \in 1..4}
DigitChars == {digits[i] : i \in 1..10}

\* the characters the first replace() of cleanExpression keeps, less whitespace,
\* which the second replace() removes
AllowedChars == DigitChars \cup OperatorChars \cup {"(", ")", "."}

DigitValue(c) == CHOOSE i \in 0..9 : digits[i + 1] = c

cleanExpression(expr) == SelectSeq(expr, LAMBDA c : c \in AllowedChars)

\* the balance counter of isValidExpression after each character
BalanceStep(c, balance) ==
    IF c = "(" THEN balance + 1 ELSE IF c = ")" THEN balance - 1 ELSE balance

RECURSIVE Balanced(_, _, _)
Balanced(expr, i, balance) ==
    IF balance < 0 THEN FALSE
    ELSE IF i > Len(expr) THEN balance = 0
    ELSE Balanced(expr, i + 1, BalanceStep(expr[i], balance))

\* /[+\-*/]{2,}/.test(expr)
ConsecutiveOperators(expr) ==
    \E i \in 1..(Len(expr) - 1) :
        expr[i] \in OperatorChars /\ expr[i + 1] \in OperatorChars

isValidExpression(expr) ==
    /\ Len(expr) # 0
    /\ Balanced(expr, 1, 0)
    /\ ~ConsecutiveOperators(expr)

\* expr-eval's parser on a string of digits and + - * / in which no two operators
\* are adjacent: an additive chain of multiplicative chains of number literals, the
\* first factor optionally under a unary + or -.  A leading * or /, a trailing
\* operator, a parenthesis or a dot left over is outside this grammar (parse error).
ParseError(expr) ==
    \/ \E i \in 1..Len(expr) : expr[i] \in {"(", ")", "."}
    \/ expr[1] \in {"*", "/"}
    \/ expr[Len(expr)] \in OperatorChars

\* the number just read joins the running product; dividing by zero leaves a
\* non-finite value, which no later + - * / by a literal makes finite again
CloseNumber(st) ==
    IF ~st.hasTerm THEN [st EXCEPT !.term = FromInt(st.num), !.hasTerm = TRUE, !.num = 0]
    ELSE IF st.mop = "*" THEN [st EXCEPT !.term = RMul(st.term, FromInt(st.num)), !.num = 0]
    ELSE IF st.num = 0 THEN [st EXCEPT !.finite = FALSE, !.num = 0]
    ELSE [st EXCEPT !.term = RDiv(st.term, FromInt(st.num)), !.num = 0]

\* the running product joins the running sum
CloseTerm(st) ==
    [st EXCEPT !.sum = IF st.sign = 1 THEN RAdd(st.sum, st.term) ELSE RSub(st.sum, st.term),
               !.hasTerm = FALSE]

\* a binary operator c follows the number that CloseNumber has just closed
AfterNumber(c, st) ==
    IF c \in {"*", "/"} THEN [st EXCEPT !.mop = c]
    ELSE [CloseTerm(st) EXCEPT !.sign = IF c = "+" THEN 1 ELSE -1]

ParserStep(c, st) ==
    IF c \in DigitChars THEN [st EXCEPT !.num = 10 * st.num + DigitValue(c)]
    ELSE AfterNumber(c, CloseNumber(st))

RECURSIVE ParserEvaluateFrom(_, _, _)
ParserEvaluateFrom(expr, i, st) ==
    IF i > Len(expr) THEN st
    ELSE ParserEvaluateFrom(expr, i + 1, ParserStep(expr[i], st))

ParserStart(expr) ==
    [sum |-> Zero, sign |-> IF expr[1] = "-" THEN -1 ELSE 1, term |-> Zero,
     hasTerm |-> FALSE, mop |-> "*", num |-> 0, finite |-> TRUE]

\* parser.parse(cleaned).evaluate({})
ParserEvaluate(expr) ==
    CloseTerm(CloseNumber(
        ParserEvaluateFrom(expr, IF expr[1] \in {"+", "-"} THEN 2 ELSE 1, ParserStart(expr))))

\* typeof result !== 'number' || !isFinite(result) ? null : result
FiniteOrNull(r) ==
    IF ~r.finite THEN [ok |-> FALSE, value |-> Zero] ELSE [ok |-> TRUE, value |-> r.sum]

EvaluateCleaned(cleaned) ==
    IF ~isValidExpression(cleaned) THEN [ok |-> FALSE, value |-> Zero]
    ELSE IF ParseError(cleaned) THEN [ok |-> FALSE, value |-> Zero]
    ELSE FiniteOrNull(ParserEvaluate(cleaned))

\* evaluate(expression): [ok |-> FALSE] stands for null
evaluate(expression) == EvaluateCleaned(cleanExpression(expression))

\* r ?? 1
OrOne(r) == IF r.ok THEN r.value ELSE One

\* r ?? 0
OrZero(r) == IF r.ok THEN r.value ELSE Zero

\* evaluate(chromosome) ?? 0
EvaluateOrZero(chromosome) == OrZero(evaluate(chromosome))

----------------------------------------------------------------------------
(* Fitness *)

FitnessOfError(error) ==
    IF error = Zero THEN One
    ELSE RDiv(One, RAdd(One, error))

\* the error taken without Math.abs
calculateFitnessSigned(solution, target) == FitnessOfError(RSub(solution, target))

calculateFitness(solution, target) == FitnessOfError(RAbs(RSub(solution, target)))

\* the convergence threshold 0.99
Threshold == [n |-> 99, d |-> 100]

\* the object literal createAgentFromChromosome returns
AgentOf(chromosome, solution, target) ==
    [chromosome |-> chromosome, fitness |-> calculateFitness(solution, target),
     solution |-> solution, equation |-> chromosome]

createAgentFromChromosome(chromosome, target) ==
    AgentOf(chromosome, EvaluateOrZero(chromosome), target)

----------------------------------------------------------------------------
(* Random draws *)

\* the outcomes of `Math.random() < rate`, the rate in hundredths
RandomBelow(rate) == {r < rate : r \in RandomUnit}

\* the outcomes of `Math.random() > bound`, the bound in hundredths
RandomAbove(bound) == {r > bound : r \in RandomUnit}

\* the outcomes of `Math.random() <= crossoverRate`
CrossoverDrawnInclusive(crossoverRate) == {r <= crossoverRate : r \in RandomUnit}

\* the outcomes of `Math.random() < this.config.crossoverRate`
CrossoverDrawn(crossoverRate) == RandomBelow(crossoverRate)

\* the outcomes of `Math.random() < this.config.mutationRate`
MutationDrawn(mutationRate) == RandomBelow(mutationRate)

\* the characters operators[Math.floor(Math.random() * 4)] may yield
OperatorDrawChars == {operators[i + 1] : i \in OperatorDraws}

\* the characters digits[Math.floor(Math.random() * 10)] may yield
DigitDrawChars == {digits[i + 1] : i \in 0..MaxDigit}

\* charSet[Math.floor(Math.random() * charSet.length)], charSet either array
CharDraws == OperatorDrawChars \cup DigitDrawChars

----------------------------------------------------------------------------
(* Chromosome codec *)

\* Math.floor(Math.random() * (maxEquationLength - 3)) + 3
LengthDraws(maxEquationLength) ==
    LET n == maxEquationLength - 3 IN
    IF n > 0 THEN 3..(3 + n - 1)
    ELSE IF n = 0 THEN {3}
    ELSE (3 + n)..3

\* the loop of generateRandomEquation from position i on, and the final append
RECURSIVE GenerateFrom(_, _, _, _)
GenerateFrom(i, length, equation, expectingOperator) ==
    IF i >= length
    THEN IF expectingOperator
         THEN {Append(equation, c) : c \in DigitDrawChars}
         ELSE {equation}
    ELSE UNION { IF expectingOperator /\ above
                 THEN UNION {GenerateFrom(i + 1, length, Append(equation, c), FALSE) :
                                 c \in OperatorDrawChars}
                 ELSE UNION {GenerateFrom(i + 1, length, Append(equation, c), TRUE) :
                                 c \in DigitDrawChars}
                 : above \in RandomAbove(30) }

\* every string generateRandomEquation can return
generateRandomEquation(maxEquationLength) ==
    UNION {GenerateFrom(0, length, <<>>, FALSE) : length \in LengthDraws(maxEquationLength)}

\* s.substring(0, k) and s.substring(k)
Prefix(s, k) == SubSeq(s, 1, k)
Suffix(s, k) == SubSeq(s, k + 1, Len(s))

\* child1.fitness > child2.fitness ? child1 : child2
BetterChild(child1, child2) ==
    IF RLess(child2.fitness, child1.fitness) THEN child1 ELSE child2

crossover(parent1, parent2, point1, point2, target) ==
    BetterChild(
        createAgentFromChromosome(
            Prefix(parent1.chromosome, point1) \o Suffix(parent2.chromosome, point2), target),
        createAgentFromChromosome(
            Prefix(parent2.chromosome, point2) \o Suffix(parent1.chromosome, point1), target))

\* chromosome.splice(index, 0, c) and chromosome.splice(index, 1)
SpliceInsert(s, index, c) == Prefix(s, index) \o <<c>> \o Suffix(s, index)
SpliceDelete(s, index) == Prefix(s, index) \o Suffix(s, index + 1)

\* the chromosome edit of mutate: mutationType in hundredths, index 0-based
mutateChromosome(chromosome, mutationType, index, c) ==
    IF mutationType < 33 THEN [chromosome EXCEPT ![index + 1] = c]
    ELSE IF mutationType < 66 THEN SpliceInsert(chromosome, index, c)
    ELSE IF Len(chromosome) > 3 THEN SpliceDelete(chromosome, index)
    ELSE chromosome

\* mutate without its last assignment: the fitness of the old chromosome is kept
UpdateAgentKeepingFitness(agent, newChromosome, solution, target) ==
    [agent EXCEPT !.chromosome = newChromosome, !.equation = newChromosome,
                  !.solution = solution]

\* the field updates that end mutate
UpdateAgent(agent, newChromosome, solution, target) ==
    [agent EXCEPT !.chromosome = newChromosome, !.equation = newChromosome,
                  !.solution = solution, !.fitness = calculateFitness(solution, target)]

MutateTo(agent, newChromosome, target) ==
    UpdateAgent(agent, newChromosome, EvaluateOrZero(newChromosome), target)

mutate(agent, mutationType, index, c, target) ==
    MutateTo(agent, mutateChromosome(agent.chromosome, mutationType, index, c), target)

\* cloneAgent returning its argument: no new object
cloneAgentShared(h, ref) == [heap |-> h, ref |-> ref]

\* cloneAgent allocates a new object: the heap with it, and its reference
cloneAgent(h, ref) == [heap |-> Append(h, h[ref]), ref |-> Len(h) + 1]

----------------------------------------------------------------------------
(* Selection *)

\* current.fitness > best.fitness ? current : best
TournamentBest(h, best, current) ==
    IF RLess(h[best].fitness, h[current].fitness) THEN current ELSE best

\* tournament.reduce(...) from the i-th entry on
RECURSIVE TournamentReduce(_, _, _, _)
TournamentReduce(h, tournament, i, best) ==
    IF i > Len(tournament) THEN best
    ELSE TournamentReduce(h, tournament, i + 1, TournamentBest(h, best, tournament[i]))

\* the references pushed for the draws randomIndex[1..tournamentSize] (0-based)
Tournament(pop, randomIndex) ==
    SubSeq([i \in 1..Len(randomIndex) |-> pop[randomIndex[i] + 1]], 1, Len(randomIndex))

ReduceTournament(h, tournament) == TournamentReduce(h, tournament, 2, tournament[1])

\* tournamentSelection with at least one draw
tournamentSelection(h, pop, randomIndex) == ReduceTournament(h, Tournament(pop, randomIndex))

\* every reference tournamentSelection can return
TournamentWinners(h, pop, tournamentSize) ==
    {tournamentSelection(h, pop, randomIndex) :
         randomIndex \in [1..tournamentSize -> 0..(Len(pop) - 1)]}

\* population.slice(1, elitismCount + 1): the elite taken one rank too low
SliceSkippingBest(pop, count) ==
    SubSeq(pop, 2, IF count + 1 < Len(pop) THEN count + 1 ELSE Len(pop))

\* population.slice(0, elitismCount)
SliceFromStart(pop, count) ==
    IF count >= 0 THEN SubSeq(pop, 1, IF count < Len(pop) THEN count ELSE Len(pop))
    ELSE SubSeq(pop, 1, Len(pop) + count)

\* the copy made by cloneAgent joins the references mapped so far
PushClone(c, out) == [heap |-> c.heap, refs |-> Append(out.refs, c.ref)]

CloneUnder(out, ref) == PushClone(cloneAgent(out.heap, ref), out)

\* .map(agent => this.cloneAgent(agent)) up to the i-th reference
RECURSIVE CloneAll(_, _, _)
CloneAll(h, refs, i) ==
    IF i = 0 THEN [heap |-> h, refs |-> <<>>]
    ELSE CloneUnder(CloneAll(h, refs, i - 1), refs[i])

\* selectElite: the heap with the copies, and the references to them
selectElite(h, pop, elitismCount) ==
    CloneAll(h, SliceFromStart(pop, elitismCount), Len(SliceFromStart(pop, elitismCount)))

----------------------------------------------------------------------------
(* Evaluation pass *)

Range(s) == {s[i] : i \in 1..Len(s)}

\* where the stable descending sort puts x among the sorted `front`
InsertSorted(h, front, x, k) == Prefix(front, k) \o <<x>> \o Suffix(front, k)
\* the comparator written (a, b) => a.fitness - b.fitness: ascending
InsertByFitnessAscending(h, front, x) ==
    InsertSorted(h, front, x,
        Cardinality({i \in 1..Len(front) : RLeq(h[front[i]].fitness, h[x].fitness)}))

InsertByFitness(h, front, x) ==
    InsertSorted(h, front, x,
        Cardinality({i \in 1..Len(front) : RLeq(h[x].fitness, h[front[i]].fitness)}))

\* Array.prototype.sort with (a, b) => b.fitness - a.fitness: stable, descending
RECURSIVE SortByFitness(_, _, _)
SortByFitness(h, pop, n) ==
    IF n = 0 THEN <<>>
    ELSE InsertByFitness(h, SortByFitness(h, pop, n - 1), pop[n])

\* the objects no array refers to any more are dropped and the rest renumbered in
\* the order of the array, references that were equal staying equal
IsFirst(s, i) == \A j \in 1..(i - 1) : s[j] # s[i]
FirstIndex(s, r) == CHOOSE i \in 1..Len(s) : s[i] = r /\ IsFirst(s, i)
NewRef(s, r) == Cardinality({j \in 1..FirstIndex(s, r) : IsFirst(s, j)})
Firsts(s) == SelectSeq(SubSeq([i \in 1..Len(s) |-> i], 1, Len(s)), LAMBDA i : IsFirst(s, i))
CompactHeap(h, pop, firsts) ==
    SubSeq([k \in 1..Len(firsts) |-> h[pop[firsts[k]]]], 1, Len(firsts))
CompactRefs(pop) == SubSeq([i \in 1..Len(pop) |-> NewRef(pop, pop[i])], 1, Len(pop))

\* agent.solution = solution; agent.fitness = this.calculateFitness(solution)
Rescored(agent, solution, target) ==
    [agent EXCEPT !.solution = solution, !.fitness = calculateFitness(solution, target)]

\* the for loop of evaluateFitness: every object of the population rescored in place
Rescore(h, pop, target) ==
    SubSeq([r \in 1..Len(h) |->
               IF r \in Range(pop)
               THEN Rescored(h[r], EvaluateOrZero(h[r].chromosome), target)
               ELSE h[r]], 1, Len(h))

\* the sorted population, its best fitness pushed onto the history
Recorded(h, sorted, history) ==
    [heap |-> CompactHeap(h, sorted, Firsts(sorted)), population |-> CompactRefs(sorted),
     history |-> Append(history, h[sorted[1]].fitness)]

SortAndRecord(h, pop, history) == Recorded(h, SortByFitness(h, pop, Len(pop)), history)

\* evaluateFitness on a non-empty population
evaluateFitness(h, pop, history, target) == SortAndRecord(Rescore(h, pop, target), pop, history)

\* getBestAgent: <<>> stands for null
getBestAgent(h, pop) == IF Len(pop) = 0 THEN <<>> ELSE <<h[pop[1]]>>

----------------------------------------------------------------------------
(* Configurations and callers *)

DEFAULT_CONFIG ==
    [populationSize |-> 50, target |-> 42, maxGenerations |-> 1000, mutationRate |-> 10,
     crossoverRate |-> 70, elitismCount |-> 5, tournamentSize |-> 3, maxEquationLength |-> 20]

\* { ...DEFAULT_CONFIG, ...config }: rates in hundredths
Configure(populationSize, target, maxGenerations, mutationRate, crossoverRate, elitismCount, tournamentSize) ==
    [DEFAULT_CONFIG EXCEPT !.populationSize = populationSize, !.target = target,
                           !.maxGenerations = maxGenerations, !.mutationRate = mutationRate,
                           !.crossoverRate = crossoverRate, !.elitismCount = elitismCount,
                           !.tournamentSize = tournamentSize, !.maxEquationLength = 4]

\* the runs explored: a configuration and the number of evolve() calls the caller makes
Scenarios ==
    { \* one individual, every operator combination
      [config |-> Configure(1, 1, 1, 50, 50, 0, 1), calls |-> 1],
      \* elitism with crossover only
      [config |-> Configure(2, 1, 1, 0, 100, 1, 2), calls |-> 1],
      \* elitism with mutation only
      [config |-> Configure(2, 1, 1, 100, 0, 1, 1), calls |-> 1],
      \* clones only, several generations
      [config |-> Configure(2, 1, 3, 0, 0, 0, 2), calls |-> 1],
      \* no generation budget
      [config |-> Configure(2, 1, 0, 50, 50, 1, 2), calls |-> 1],
      \* the same instance evolved twice
      [config |-> Configure(1, 1, 1, 0, 0, 0, 1), calls |-> 2],
      \* an empty tournament
      [config |-> Configure(1, 1, 1, 0, 0, 0, 0), calls |-> 1],
      \* target 0
      [config |-> Configure(1, 0, 1, 0, 100, 0, 1), calls |-> 1],
      \* configurations outside the Run Configuration invariant
      [config |-> Configure(1, 1, 2, 50, 50, 1, 1), calls |-> 1],
      [config |-> Configure(1, 1, 1, -10, 150, 0, 2), calls |-> 1] }

Target == FromInt(config.target)

Init ==
    /\ \E s \in Scenarios : config = s.config /\ callsLeft = s.calls
    /\ pc = "idle"
    /\ heap = <<>>
    /\ population = <<>>
    /\ newPopulation = <<>>
    /\ generation = 0
    /\ bestFitnessHistory = <<>>
    /\ result = <<>>
    /\ fit = <<>>

----------------------------------------------------------------------------
(* evolve() *)

\* initializePopulation on the chromosomes drawn: fresh objects 1..populationSize
initializePopulation(chromosomes, target) ==
    SubSeq([i \in 1..Len(chromosomes) |-> createAgentFromChromosome(chromosomes[i], target)],
           1, Len(chromosomes))

\* the references this.population holds after initializePopulation
InitialRefs(n) == SubSeq([i \in 1..n |-> i], 1, n)

\* evolve() is entered: initializePopulation(), evaluateFitness(), this.generation = 0
EvolveStart ==
    /\ pc \in {"idle", "returned", "thrown"}
    /\ callsLeft > 0
    /\ \E chromosomes \in [1..config.populationSize ->
                              generateRandomEquation(config.maxEquationLength)] :
       \E ev \in {evaluateFitness(initializePopulation(chromosomes, Target),
                                  InitialRefs(config.populationSize),
                                  bestFitnessHistory, Target)} :
           /\ heap' = ev.heap
           /\ population' = ev.population
           /\ bestFitnessHistory' = ev.history
    /\ generation' = 0
    /\ newPopulation' = <<>>
    /\ result' = <<>>
    /\ callsLeft' = callsLeft - 1
    /\ pc' = "loop"
    /\ UNCHANGED <<config, fit>>

\* the loop condition written `<=`: one generation too many
WithinBudgetInclusive(gen, maxGenerations) == gen <= maxGenerations

\* the loop condition `generation < this.config.maxGenerations`
WithinBudget(gen, maxGenerations) == gen < maxGenerations

\* the threshold test written the wrong way round
IsConvergedFlipped(best) == Len(best) # 0 /\ RLeq(best[1].fitness, Threshold)

\* best && best.fitness >= 0.99
IsConverged(best) == Len(best) # 0 /\ RLeq(Threshold, best[1].fitness)

\* the loop head finds the best individual converged: return best
Converged ==
    /\ pc = "loop"
    /\ WithinBudget(generation, config.maxGenerations)
    /\ IsConverged(getBestAgent(heap, population))
    /\ result' = getBestAgent(heap, population)
    /\ pc' = "returned"
    /\ UNCHANGED <<config, callsLeft, heap, population, newPopulation, generation,
                   bestFitnessHistory, fit>>

\* the loop condition fails: return this.getBestAgent()
BudgetExhausted ==
    /\ pc = "loop"
    /\ ~WithinBudget(generation, config.maxGenerations)
    /\ result' = getBestAgent(heap, population)
    /\ pc' = "returned"
    /\ UNCHANGED <<config, callsLeft, heap, population, newPopulation, generation,
                   bestFitnessHistory, fit>>

\* a new generation is begun: newPopulation = [...selectElite()]
BeginGeneration ==
    /\ pc = "loop"
    /\ WithinBudget(generation, config.maxGenerations)
    /\ ~IsConverged(getBestAgent(heap, population))
    /\ \E elite \in {selectElite(heap, population, config.elitismCount)} :
           /\ heap' = elite.heap
           /\ newPopulation' = elite.refs
    /\ pc' = "offspring"
    /\ UNCHANGED <<config, callsLeft, population, generation, bestFitnessHistory, result, fit>>

\* the loop condition written `<=`: one pass too many
PopulationFullOffByOne(newPop, populationSize) == ~(Len(newPop) <= populationSize)

\* the negated condition of `while (newPopulation.length < this.config.populationSize)`
PopulationFull(newPop, populationSize) == ~(Len(newPop) < populationSize)

\* every agent mutate can leave in place of `agent`
Mutations(agent, target) ==
    {mutate(agent, mutationType, index, c, target) :
         mutationType \in RandomUnit, index \in 0..(Len(agent.chromosome) - 1), c \in CharDraws}

\* the offspring, possibly mutated, is pushed onto newPopulation
PushOffspring(h, ref) ==
    /\ \E doMutate \in MutationDrawn(config.mutationRate) :
           IF doMutate
           THEN \E mutated \in Mutations(h[ref], Target) : heap' = [h EXCEPT ![ref] = mutated]
           ELSE heap' = h
    /\ newPopulation' = Append(newPopulation, ref)
    /\ UNCHANGED <<config, callsLeft, pc, population, generation, bestFitnessHistory,
                   result, fit>>

\* every agent crossover can return for parents among `winners`: the cut points are
\* Math.floor(Math.random() * parent.chromosome.length)
CrossoverChildren(h, winners, target) ==
    UNION { UNION { { crossover(h[parent1], h[parent2], point1, point2, target) :
                          point1 \in 0..(Len(h[parent1].chromosome) - 1),
                          point2 \in 0..(Len(h[parent2].chromosome) - 1) } :
                    parent2 \in winners } :
            parent1 \in winners }

\* one pass of the while loop taking the crossover branch
OffspringByCrossover ==
    /\ pc = "offspring"
    /\ ~PopulationFull(newPopulation, config.populationSize)
    /\ config.tournamentSize >= 1
    /\ TRUE \in CrossoverDrawn(config.crossoverRate)
    /\ \E child \in CrossoverChildren(heap, TournamentWinners(heap, population,
                                                             config.tournamentSize), Target) :
           PushOffspring(Append(heap, child), Len(heap) + 1)

\* one pass of the while loop taking the clone branch
OffspringByClone ==
    /\ pc = "offspring"
    /\ ~PopulationFull(newPopulation, config.populationSize)
    /\ config.tournamentSize >= 1
    /\ FALSE \in CrossoverDrawn(config.crossoverRate)
    /\ \E parent1 \in TournamentWinners(heap, population, config.tournamentSize) :
       \E offspring \in {cloneAgent(heap, parent1)} :
           PushOffspring(offspring.heap, offspring.ref)

\* tournamentSelection with no draw: reduce of an empty array throws a TypeError
EmptyTournament ==
    /\ pc = "offspring"
    /\ ~PopulationFull(newPopulation, config.populationSize)
    /\ config.tournamentSize < 1
    /\ pc' = "thrown"
    /\ UNCHANGED <<config, callsLeft, heap, population, newPopulation, generation,
                   bestFitnessHistory, result, fit>>

\* the while loop is over: this.population = newPopulation, evaluateFitness(),
\* this.generation++
Advance ==
    /\ pc = "offspring"
    /\ PopulationFull(newPopulation, config.populationSize)
    /\ \E ev \in {evaluateFitness(heap, newPopulation, bestFitnessHistory, Target)} :
           /\ heap' = ev.heap
           /\ population' = ev.population
           /\ bestFitnessHistory' = ev.history
    /\ newPopulation' = <<>>
    /\ generation' = generation + 1
    /\ pc' = "loop"
    /\ UNCHANGED <<config, callsLeft, result, fit>>

Next ==
    \/ EvolveStart
    \/ Converged
    \/ BudgetExhausted
    \/ BeginGeneration
    \/ OffspringByCrossover
    \/ OffspringByClone
    \/ EmptyTournament
    \/ Advance

Spec == Init /\ [][Next]_vars

----------------------------------------------------------------------------
(* calculateFitness on its own *)

\* the rationals n/d with |n| <= MaxFit and 1 <= d <= MaxFit
Grid == {Rat(n, d) : n \in (0 - MaxFit)..MaxFit, d \in 1..MaxFit}

\* two solutions and a target are drawn; no fitness is computed yet
InitFitness ==
    /\ config = DEFAULT_CONFIG
    /\ callsLeft = 0
    /\ pc = "idle"
    /\ heap = <<>>
    /\ population = <<>>
    /\ newPopulation = <<>>
    /\ generation = 0
    /\ bestFitnessHistory = <<>>
    /\ result = <<>>
    /\ \E solution \in Grid, other \in Grid, target \in Grid :
           fit = [solution |-> solution, other |-> other, target |-> target,
                  fitness |-> <<>>, otherFitness |-> <<>>]

\* calculateFitness is applied to both solutions
ComputeFitness ==
    /\ fit # <<>>
    /\ fit.fitness = <<>>
    /\ fit' = [fit EXCEPT !.fitness = <<calculateFitness(fit.solution, fit.target)>>,
                          !.otherFitness = <<calculateFitness(fit.other, fit.target)>>]
    /\ UNCHANGED <<config, callsLeft, pc, heap, population, newPopulation, generation,
                   bestFitnessHistory, result>>

NextFitness == ComputeFitness

SpecFitness == InitFitness /\ [][NextFitness]_vars

----------------------------------------------------------------------------
(* crossover on its own *)

\* the variables evolve() owns, as the constructor leaves them
Constructed ==
    /\ config = DEFAULT_CONFIG
    /\ callsLeft = 0
    /\ pc = "idle"
    /\ heap = <<>>
    /\ population = <<>>
    /\ newPopulation = <<>>
    /\ generation = 0
    /\ bestFitnessHistory = <<>>
    /\ result = <<>>

\* the target of the harnesses
HarnessTarget == One

\* the agents createRandomAgent can return for maxEquationLength = 4
RandomAgents ==
    {createAgentFromChromosome(chromosome, HarnessTarget) :
         chromosome \in generateRandomEquation(4)}

\* two parents are drawn; crossover has not been called yet
InitCrossover ==
    /\ Constructed
    /\ \E parent1 \in RandomAgents, parent2 \in RandomAgents :
           fit = [parent1 |-> parent1, parent2 |-> parent2, points |-> <<>>,
                  child |-> <<>>]

\* crossover(parent1, parent2) is called: it draws its cut points and returns a child
CallCrossover ==
    /\ fit.child = <<>>
    /\ \E point1 \in 0..(Len(fit.parent1.chromosome) - 1),
          point2 \in 0..(Len(fit.parent2.chromosome) - 1) :
           fit' = [fit EXCEPT !.points = <<point1, point2>>,
                              !.child = <<crossover(fit.parent1, fit.parent2, point1,
                                                    point2, HarnessTarget)>>]
    /\ UNCHANGED <<config, callsLeft, pc, heap, population, newPopulation, generation,
                   bestFitnessHistory, result>>

NextCrossover == CallCrossover

SpecCrossover == InitCrossover /\ [][NextCrossover]_vars

----------------------------------------------------------------------------
(* mutate on its own *)

\* the branch of mutate that edits the chromosome, "none" when the delete branch
\* finds the chromosome too short
AppliedOperation(chromosome, mutationType) ==
    IF mutationType < 33 THEN "substitute"
    ELSE IF mutationType < 66 THEN "insert"
    ELSE IF Len(chromosome) > 3 THEN "delete"
    ELSE "none"

\* an agent is drawn; mutate has not been called yet
InitMutate ==
    /\ Constructed
    /\ \E agent \in RandomAgents :
           fit = [agent |-> agent, draws |-> <<>>, mutated |-> <<>>]

\* mutate(agent) is called: it draws the operation, the position and the character
CallMutate ==
    /\ fit.mutated = <<>>
    /\ \E mutationType \in RandomUnit, index \in 0..(Len(fit.agent.chromosome) - 1),
          c \in CharDraws :
           fit' = [fit EXCEPT !.draws = <<mutationType, index, c>>,
                              !.mutated = <<mutate(fit.agent, mutationType, index, c,
                                                   HarnessTarget)>>]
    /\ UNCHANGED <<config, callsLeft, pc, heap, population, newPopulation, generation,
                   bestFitnessHistory, result>>

NextMutate == CallMutate

SpecMutate == InitMutate /\ [][NextMutate]_vars

----------------------------------------------------------------------------
(* generateRandomEquation on its own *)

\* a maxEquationLength is configured; nothing is generated yet
InitGenerate ==
    /\ Constructed
    /\ \E maxEquationLength \in 3..MaxLength :
           fit = [maxEquationLength |-> maxEquationLength, generated |-> <<>>]

\* generateRandomEquation() is called
CallGenerate ==
    /\ fit.generated = <<>>
    /\ \E equation \in generateRandomEquation(fit.maxEquationLength) :
           fit' = [fit EXCEPT !.generated = <<equation>>]
    /\ UNCHANGED <<config, callsLeft, pc, heap, population, newPopulation, generation,
                   bestFitnessHistory, result>>

NextGenerate == CallGenerate

SpecGenerate == InitGenerate /\ [][NextGenerate]_vars

----------------------------------------------------------------------------
(* tournamentSelection on its own *)

\* the evaluated populations of two agents: sorted by fitness, best first
SortedPairs ==
    {agents \in RandomAgents \X RandomAgents : RLeq(agents[2].fitness, agents[1].fitness)}

\* a population and a tournamentSize within the configuration invariant
\* tournamentSize <= populationSize; tournamentSelection has not been called yet
InitTournament ==
    /\ Constructed
    /\ \E agents \in SortedPairs, tournamentSize \in 0..2 :
           fit = [heap |-> agents, population |-> <<1, 2>>,
                  tournamentSize |-> tournamentSize, randomIndex |-> <<>>,
                  called |-> FALSE, thrown |-> FALSE, winner |-> 0]

\* tournamentSelection() is called with at least one draw and returns an agent
CallTournament ==
    /\ ~fit.called
    /\ fit.tournamentSize >= 1
    /\ \E randomIndex \in [1..fit.tournamentSize -> 0..(Len(fit.population) - 1)] :
           fit' = [fit EXCEPT !.called = TRUE,
                              !.randomIndex = Tournament(<<0, 1>>, randomIndex),
                              !.winner = tournamentSelection(fit.heap, fit.population,
                                                             randomIndex)]
    /\ UNCHANGED <<config, callsLeft, pc, heap, population, newPopulation, generation,
                   bestFitnessHistory, result>>

\* tournamentSelection() is called with no draw: reduce of an empty array throws
CallEmptyTournament ==
    /\ ~fit.called
    /\ fit.tournamentSize < 1
    /\ fit' = [fit EXCEPT !.called = TRUE, !.thrown = TRUE]
    /\ UNCHANGED <<config, callsLeft, pc, heap, population, newPopulation, generation,
                   bestFitnessHistory, result>>

NextTournament == CallTournament \/ CallEmptyTournament

SpecTournament == InitTournament /\ [][NextTournament]_vars

----------------------------------------------------------------------------
(* Properties of evolve() *)

MinOf(a, b) == IF a < b THEN a ELSE b

\* the individual at 1-based rank i of the sorted population
Ranked(h, pop, i) == h[pop[i]]

\* error 0 - target scored by hand: 1 / (1 + |0 - target|)
ScoreOfZero == RDiv(One, RAdd(One, RAbs(RSub(Zero, Target))))

\* the configuration breaks an invariant of the Run Configuration
BreaksConfigurationInvariant ==
    \/ config.elitismCount >= config.populationSize
    \/ config.mutationRate < 0 \/ config.mutationRate > 100
    \/ config.crossoverRate < 0 \/ config.crossoverRate > 100
    \/ config.tournamentSize > config.populationSize

\* no crossover, no mutation, no elite
ClonesOnlyConfiguration ==
    config.elitismCount = 0 /\ config.crossoverRate = 0 /\ config.mutationRate = 0

\* the step that replaces the population and evaluates it
GenerationTransition == pc = "offspring" /\ pc' = "loop"

\* C1: with elitismCount < populationSize, the population holds exactly
\* populationSize individuals once seeded and after every generation transition,
\* and the population under construction never holds more.
PopulationSizeHolds ==
    (pc # "idle" /\ config.elitismCount < config.populationSize) =>
        /\ Len(population) = config.populationSize
        /\ Len(newPopulation) <= config.populationSize

\* C1 witness: a population of two, one of them an elite copy, after a generation
\* transition
PopulationSizeReached ==
    /\ pc = "loop"
    /\ generation >= 1
    /\ config.elitismCount = 1
    /\ config.populationSize = 2
    /\ Len(population) = 2

\* C2: every individual in the population or in the population under construction
\* stores the solution its chromosome evaluates to (0 when rejected) and the fitness
\* of that solution.
NoStaleFitness ==
    \A r \in 1..Len(heap) :
        /\ heap[r].solution = EvaluateOrZero(heap[r].chromosome)
        /\ heap[r].fitness = calculateFitness(heap[r].solution, Target)

\* C2 witness: an offspring made by cloning and an insert mutation (crossover is off)
\* sits in the population under construction
MutatedOffspringPushed ==
    /\ pc = "offspring"
    /\ config.crossoverRate = 0
    /\ config.mutationRate = 100
    /\ \E i \in 1..Len(newPopulation) : Len(heap[newPopulation[i]].chromosome) = 5

\* C3: over every generation transition, the fitness at each rank below
\* elitismCount does not decrease.
ElitismNonRegression ==
    [][GenerationTransition =>
           \A i \in 1..MinOf(config.elitismCount, Len(population)) :
               RLeq(Ranked(heap, population, i).fitness,
                    Ranked(heap', population', i).fitness)]_vars

\* C3 witness: with one elite, a generation transition has raised the best fitness
EliteFrontImproved ==
    /\ pc = "loop"
    /\ generation >= 1
    /\ config.elitismCount = 1
    /\ config.populationSize = 2
    /\ Len(bestFitnessHistory) = generation + 1
    /\ RLess(bestFitnessHistory[generation], bestFitnessHistory[generation + 1])

\* a seeded individual whose chromosome evaluates exactly to the target
SeedHitsTarget ==
    \E i \in 1..Len(population) :
        evaluate(Ranked(heap, population, i).chromosome) = [ok |-> TRUE, value |-> Target]

\* C4: from an evaluated population whose best fitness is at least 0.99 the only
\* step is to return population[0]; and with maxGenerations >= 1 and a seeded
\* individual evaluating to the target, the run returns at generation 0 an
\* individual with solution = target and fitness 1.
ConvergenceStopsRun ==
    [][/\ (pc = "loop" /\ RLeq(Threshold, Ranked(heap, population, 1).fitness)) =>
              /\ pc' = "returned"
              /\ generation' = generation
              /\ result' = <<Ranked(heap, population, 1)>>
       /\ (pc = "loop" /\ generation = 0 /\ config.maxGenerations >= 1 /\ SeedHitsTarget) =>
              /\ pc' = "returned"
              /\ generation' = 0
              /\ result'[1].solution = Target
              /\ result'[1].fitness = One]_vars

\* C4 witness: a run with a generation budget has returned at generation 0 an exact
\* solution
ReturnedAtGenerationZero ==
    /\ pc = "returned"
    /\ generation = 0
    /\ config.maxGenerations >= 1
    /\ result[1].solution = Target
    /\ result[1].fitness = One

\* evolve() is running
Running == pc \in {"loop", "offspring"}

\* an upper bound on the steps evolve() can still take before it ends: per
\* generation left, the elite copy, populationSize pushes at most, and the replacement
StepsLeft ==
    IF pc = "loop"
    THEN (config.maxGenerations - generation) * (config.populationSize + 2)
    ELSE (config.maxGenerations - generation - 1) * (config.populationSize + 2)
         + 1 + (config.populationSize - Len(newPopulation))

\* the state half of C5
BudgetBounded ==
    /\ generation <= config.maxGenerations
    /\ pc = "returned" => result = <<Ranked(heap, population, 1)>>
    /\ config.maxGenerations = 0 =>
           generation = 0 /\ pc # "offspring" /\ newPopulation = <<>>
    /\ Running => StepsLeft >= 0

\* C5: a run makes at most maxGenerations generation transitions and always ends
\* (every step of a running evolve() either ends it or lowers a natural-number
\* bound on the steps left); when it returns, it returns
\* the non-null best individual of the last evaluated population; with
\* maxGenerations = 0 it makes no generation transition.
BudgetExhaustionTerminates ==
    /\ []BudgetBounded
    /\ [][Running => (pc' \in {"returned", "thrown"} \/ StepsLeft' < StepsLeft)]_vars

\* C5 witness: the budget is used up without convergence and the best is returned
BudgetUsedUp ==
    /\ pc = "returned"
    /\ config.maxGenerations >= 1
    /\ generation = config.maxGenerations
    /\ Len(result) = 1
    /\ RLess(result[1].fitness, Threshold)

\* C6, as stated: a run that made `generation` transitions ends with
\* generation + 1 history entries. The second evolve() on an instance violates it.
HistoryCountsTransitions ==
    pc = "returned" => Len(bestFitnessHistory) = generation + 1

\* C7, as stated: a configuration that breaks an invariant is never seeded or run.
InvalidConfigurationRejected ==
    BreaksConfigurationInvariant =>
        pc = "idle" /\ population = <<>> /\ bestFitnessHistory = <<>>

\* C8: an individual whose chromosome the evaluator rejects has solution 0 and
\* fitness 1 / (1 + |0 - target|), and evolve never throws with a tournament of at
\* least one draw: no exception comes from a chromosome.
RejectedChromosomeScoredAsZero ==
    /\ \A r \in 1..Len(heap) :
           ~evaluate(heap[r].chromosome).ok =>
               heap[r].solution = Zero /\ heap[r].fitness = ScoreOfZero
    /\ pc = "thrown" => config.tournamentSize < 1

\* C8 witness: a run has returned with an individual like "5//2" in its last
\* population
RejectedChromosomeSurvives ==
    /\ pc = "returned"
    /\ generation >= 1
    /\ \E i \in 1..Len(population) :
           /\ ConsecutiveOperators(Ranked(heap, population, i).chromosome)
           /\ Ranked(heap, population, i).solution = Zero

\* C10: with no elite, no crossover and no mutation, every individual after a
\* generation transition equals (chromosome, solution, fitness) an individual
\* before it, and the best fitness does not rise.
ClonesOnly ==
    [][(ClonesOnlyConfiguration /\ GenerationTransition) =>
           /\ \A i \in 1..Len(population') :
                  \E j \in 1..Len(population) :
                      Ranked(heap', population', i) = Ranked(heap, population, j)
           /\ RLeq(Ranked(heap', population', 1).fitness,
                   Ranked(heap, population, 1).fitness)]_vars

\* C10 witness: two generations of clones, the weaker seed having displaced the
\* stronger one
ClonesReplacedPopulation ==
    /\ pc = "loop"
    /\ generation >= 2
    /\ ClonesOnlyConfiguration
    /\ config.populationSize = 2
    /\ Len(bestFitnessHistory) = generation + 1
    /\ RLess(bestFitnessHistory[generation + 1], bestFitnessHistory[1])

\* the history entries the current run has pushed: the last generation + 1
RunEntries ==
    {i \in 1..Len(bestFitnessHistory) : i >= Len(bestFitnessHistory) - generation}

\* C11, as stated: under an admissible configuration the returned individual is at
\* least as fit as every history entry of its run. A run without elite violates it.
ReturnedIsBestOfRun ==
    (pc = "returned" /\ ~BreaksConfigurationInvariant) =>
        \A i \in RunEntries : RLeq(bestFitnessHistory[i], result[1].fitness)

\* C12, as stated: a run starts with an empty history, so once its seeded
\* population is evaluated the history holds one entry. The second evolve() on an
\* instance violates it.
HistoryStartsEmpty ==
    (pc = "loop" /\ generation = 0) => Len(bestFitnessHistory) = 1

\* C16, as stated: every chromosome in the population is at most maxEquationLength
\* long. Crossover and the insert mutation produce longer ones.
ChromosomeLengthBounded ==
    \A i \in 1..Len(population) :
        Len(Ranked(heap, population, i).chromosome) <= config.maxEquationLength

\* C18: once evaluated, the population is in non-increasing order of fitness, so
\* population[0] has the maximum fitness; it is what the convergence check reads
\* and what evolve() returns.
PopulationSorted ==
    pc # "idle" =>
        /\ \A i \in 1..(Len(population) - 1) :
               RLeq(Ranked(heap, population, i + 1).fitness,
                    Ranked(heap, population, i).fitness)
        /\ \A i \in 1..Len(population) :
               RLeq(Ranked(heap, population, i).fitness, Ranked(heap, population, 1).fitness)
        /\ getBestAgent(heap, population) = <<Ranked(heap, population, 1)>>
        /\ pc = "returned" => result = <<Ranked(heap, population, 1)>>

\* C18 witness: a generation transition has left two individuals of different
\* fitness, the fitter one first
SortedAfterTransition ==
    /\ pc = "loop"
    /\ generation >= 1
    /\ Len(population) = 2
    /\ RLess(Ranked(heap, population, 2).fitness, Ranked(heap, population, 1).fitness)

\* no object is referred to twice, within or across the two populations
NoSharedObjects ==
    /\ \A i \in 1..Len(population) : IsFirst(population, i)
    /\ \A i \in 1..Len(newPopulation) : IsFirst(newPopulation, i)
    /\ Range(population) \cap Range(newPopulation) = {}

\* C19: every individual placed in a new generation is an object of its own,
\* distinct from those of the prior generation and from the other new entries; the
\* elite copy and every offspring step, mutation included, leave every object that
\* existed before the step unchanged.
NoAliasing ==
    /\ []NoSharedObjects
    /\ [][pc' = "offspring" => \A r \in 1..Len(heap) : heap'[r] = heap[r]]_vars

\* C19 witness: next to an elite copy, a mutated clone sits in the new generation,
\* its chromosome found nowhere in the prior generation
MutatedCloneBesideElite ==
    /\ pc = "offspring"
    /\ config.elitismCount = 1
    /\ config.crossoverRate = 0
    /\ Len(newPopulation) = 2
    /\ \A i \in 1..Len(population) :
           Ranked(heap, population, i).chromosome # Ranked(heap, newPopulation, 2).chromosome
    /\ Ranked(heap, newPopulation, 1) = Ranked(heap, population, 1)

\* C20, as stated: an individual returned with fitness >= 0.99 has a chromosome
\* the evaluator accepts, whose value is within 1/0.99 - 1 of the target. With
\* target 0 a rejected chromosome, scored as solution 0, is returned as converged.
ConvergedIsSolution ==
    (pc = "returned" /\ RLeq(Threshold, result[1].fitness)) =>
        /\ evaluate(result[1].chromosome).ok
        /\ RLeq(RAbs(RSub(evaluate(result[1].chromosome).value, Target)),
                RSub(RDiv(One, Threshold), One))

----------------------------------------------------------------------------
(* Properties of calculateFitness *)

FitError == RAbs(RSub(fit.solution, fit.target))
OtherError == RAbs(RSub(fit.other, fit.target))

----------------------------------------------------------------------------
(* Properties of crossover *)

\* the two candidates of the crossover call recorded in the harness
FirstCandidate ==
    createAgentFromChromosome(
        Prefix(fit.parent1.chromosome, fit.points[1])
            \o Suffix(fit.parent2.chromosome, fit.points[2]), HarnessTarget)
SecondCandidate ==
    createAgentFromChromosome(
        Prefix(fit.parent2.chromosome, fit.points[2])
            \o Suffix(fit.parent1.chromosome, fit.points[1]), HarnessTarget)

\* C13, as stated: crossover returns the second candidate only when it is strictly
\* fitter than the first, and the first candidate on a tie. The code returns the
\* second candidate on a tie.
CrossoverKeepsFirstOnTie ==
    fit.child # <<>> =>
        fit.child[1] = IF RLess(FirstCandidate.fitness, SecondCandidate.fitness)
                       THEN SecondCandidate
                       ELSE FirstCandidate

----------------------------------------------------------------------------
(* Properties of mutate *)

\* the chromosome before and after the mutate call recorded in the harness
Before == fit.agent.chromosome
After == fit.mutated[1].chromosome

\* C14, as stated: every call of mutate applies exactly one operation: a
\* substitution (same length, the drawn position overwritten), an insertion
\* (length + 1) or a deletion (length - 1, only from a length above 3). The delete
\* branch on a chromosome of length 3 applies none.
MutateAppliesOneOperation ==
    fit.mutated # <<>> =>
        \/ /\ AppliedOperation(Before, fit.draws[1]) = "substitute"
           /\ After = [Before EXCEPT ![fit.draws[2] + 1] = fit.draws[3]]
        \/ /\ AppliedOperation(Before, fit.draws[1]) = "insert"
           /\ Len(After) = Len(Before) + 1
           /\ SpliceDelete(After, fit.draws[2]) = Before
        \/ /\ AppliedOperation(Before, fit.draws[1]) = "delete"
           /\ Len(Before) > 3
           /\ Len(After) = Len(Before) - 1
           /\ After = SpliceDelete(Before, fit.draws[2])

----------------------------------------------------------------------------
(* Properties of generateRandomEquation *)

\* C15, as stated: for maxEquationLength >= 3 the generated chromosome has a
\* length in [3, maxEquationLength], begins and ends with a digit, and has no two
\* adjacent operators. The code can end a chromosome with an operator.
GeneratedShape ==
    fit.generated # <<>> =>
        /\ Len(fit.generated[1]) >= 3
        /\ Len(fit.generated[1]) <= fit.maxEquationLength
        /\ fit.generated[1][1] \in DigitChars
        /\ fit.generated[1][Len(fit.generated[1])] \in DigitChars
        /\ ~ConsecutiveOperators(fit.generated[1])

----------------------------------------------------------------------------
(* Properties of tournamentSelection *)

\* the agent sampled at the i-th draw of the call recorded in the harness
Sampled(i) == fit.heap[fit.population[fit.randomIndex[i] + 1]]

\* the call returned the first sampled agent among the fittest sampled ones
ReturnedFirstFittest ==
    \E i \in 1..Len(fit.randomIndex) :
        /\ fit.winner = fit.population[fit.randomIndex[i] + 1]
        /\ \A j \in 1..Len(fit.randomIndex) : RLeq(Sampled(j).fitness, Sampled(i).fitness)
        /\ \A j \in 1..(i - 1) : RLess(Sampled(j).fitness, Sampled(i).fitness)

\* C17, as stated: for every tournamentSize <= populationSize the call returns a
\* member of the population, the first sampled among the fittest of the
\* tournamentSize agents sampled. With tournamentSize = 0 the call throws.
TournamentReturnsFittest ==
    fit.called =>
        /\ ~fit.thrown
        /\ Len(fit.randomIndex) = fit.tournamentSize
        /\ fit.winner \in Range(fit.population)
        /\ ReturnedFirstFittest

====
